---------------------------- MODULE Spec2Model ----------------------------
(***************************************************************************)
(* A model of lib/fileglob.js: the glob-to-RegExp compiler (FileGlob), the *)
(* set variants built on it (EmptySet, FileGlobSet, Compliment, Union) and *)
(* the factories make, makeSet, makeCompliment and makeUnion.              *)
(*                                                                         *)
(* Strings are sequences of one-character strings.  A JavaScript value is  *)
(* a tuple whose first element names its kind.  An exception raised by a   *)
(* constructor is the value Thrown, which propagates through every caller. *)
(***************************************************************************)
EXTENDS Naturals, Sequences, FiniteSets

VARIABLES
    cur,    \* the value the last factory call returned (or Thrown)
    call,   \* the last factory call: <<fn, args>>
    op,     \* the method last invoked on cur: "none", "matches" or "filter"
    arg,    \* that method's argument: <<path>> for matches, the list for filter
    ret     \* that method's result

vars == <<cur, call, op, arg, ret>>

---------------------------------------------------------------------------
(* Bounds and input alphabets *)

MaxGlobLen == 4
MaxPathLen == 3
MaxArgs == 2
MaxDepth == 2
MaxFilterLen == 2

GlobChars == {"a", "/", "*", "?", ".", "+"}
PathChars == {"a", "/", "+"}

Strings(chars, n) == UNION {[1..k -> chars] : k \in 0..n}

Globs == Strings(GlobChars, MaxGlobLen)
Paths == Strings(PathChars, MaxPathLen)

\* The glob strings, glob lists and paths the set factories are exercised with.
SetGlobs == {<<"a">>, <<"+">>}
SetLists == {<<>>, <<<<"*">>, <<"a">>>>, <<<<"a">>, <<"+">>>>}
SetPaths == {<<>>, <<"a">>, <<"a", "a">>}

---------------------------------------------------------------------------
(* JavaScript values *)

Kind(x) == x[1]

Undefined == <<"undefined">>
Thrown == <<"SyntaxError">>
Str(s) == <<"string", s>>
Arr(items) == <<"array", items>>
Chars(x) == x[2]
Items(x) == x[2]

\* const EmptySet = new Set();
EmptySet == <<"Set">>

IsThrown(x) == Kind(x) = "SyntaxError"

---------------------------------------------------------------------------
(* new RegExp(pattern): the part of the regular-expression grammar that    *)
(* the compiled patterns can contain.                                      *)

\* an atom: its type, its character, its quantifier, a group's body
Atom(t, c, body) == <<t, c, "1", body>>
AtomType(atom) == atom[1]
AtomChar(atom) == atom[2]
AtomQuantifier(atom) == atom[3]
AtomBody(atom) == atom[4]

\* a parse: whether it succeeded, the atoms, the index after them
Parsed(atoms, next) == <<TRUE, atoms, next>>
ParseError == <<FALSE, <<>>, 0>>
ParseOk(r) == r[1]
ParseAtoms(r) == r[2]
ParseNext(r) == r[3]

At(s, i) == IF i >= 1 /\ i <= Len(s) THEN s[i] ELSE "undefined"

SetLast(acc, q) == [acc EXCEPT ![Len(acc)][3] = q]

RECURSIVE ParseTerms(_, _, _, _)
ParseTerms(s, i, acc, depth) ==
    IF i > Len(s)
    THEN IF depth = 0 THEN Parsed(acc, i)
         ELSE ParseError                      \* unterminated group
    ELSE LET c == s[i] IN
      CASE c = ")" ->
             IF depth > 0 THEN Parsed(acc, i + 1)
             ELSE ParseError                  \* unmatched ')'
        [] c = "(" ->
             LET inner == ParseTerms(s, i + 1, <<>>, depth + 1) IN
             IF ~ParseOk(inner) THEN ParseError
             ELSE ParseTerms(s, ParseNext(inner),
                             Append(acc, Atom("group", "", ParseAtoms(inner))), depth)
        [] c \in {"*", "+"} ->
             \* a quantifier needs a quantifiable, not yet quantified atom
             IF acc = <<>> THEN ParseError    \* nothing to repeat
             ELSE IF \/ AtomQuantifier(acc[Len(acc)]) # "1"
                     \/ AtomType(acc[Len(acc)]) \in {"bol", "eol"}
             THEN ParseError                  \* nothing to repeat
             ELSE ParseTerms(s, i + 1, SetLast(acc, c), depth)
        [] c = "[" ->
             IF At(s, i + 1) = "^" /\ At(s, i + 2) = "/" /\ At(s, i + 3) = "]"
             THEN ParseTerms(s, i + 4, Append(acc, Atom("nonslash", "", <<>>)), depth)
             ELSE ParseError
        [] c = "\\" ->
             IF i + 1 <= Len(s)
             THEN ParseTerms(s, i + 2, Append(acc, Atom("char", s[i + 1], <<>>)), depth)
             ELSE ParseError                  \* \ at end of pattern
        [] c = "^" -> ParseTerms(s, i + 1, Append(acc, Atom("bol", "", <<>>)), depth)
        [] c = "$" -> ParseTerms(s, i + 1, Append(acc, Atom("eol", "", <<>>)), depth)
        [] c = "." -> ParseTerms(s, i + 1, Append(acc, Atom("any", "", <<>>)), depth)
        [] OTHER -> ParseTerms(s, i + 1, Append(acc, Atom("char", c, <<>>)), depth)

\* new RegExp(pattern): the parsed expression, or a SyntaxError
RegExp(pattern) == ParseTerms(pattern, 1, <<>>, 0)

(* re.test(path): the positions of path an expression can end at, started  *)
(* from a set of positions.                                                *)
RECURSIVE Once(_, _, _), Closure(_, _, _), Quantified(_, _, _), Ends(_, _, _, _)

Once(atom, path, P) ==
    LET t == AtomType(atom) IN
    CASE t = "char" ->
           {p + 1 : p \in {x \in P : x <= Len(path) /\ path[x] = AtomChar(atom)}}
      [] t = "nonslash" -> {p + 1 : p \in {x \in P : x <= Len(path) /\ path[x] # "/"}}
      [] t = "any" -> {p + 1 : p \in {x \in P : x <= Len(path)}}
      [] t = "bol" -> {p \in P : p = 1}
      [] t = "eol" -> {p \in P : p = Len(path) + 1}
      [] t = "group" -> Ends(AtomBody(atom), 1, path, P)

Closure(atom, path, P) ==
    LET N == P \cup Once(atom, path, P) IN
    IF N = P THEN P ELSE Closure(atom, path, N)

Quantified(atom, path, P) ==
    LET q == AtomQuantifier(atom) IN
    CASE q = "1" -> Once(atom, path, P)
      [] q = "*" -> Closure(atom, path, P)
      [] q = "+" -> Closure(atom, path, Once(atom, path, P))

Ends(atoms, k, path, P) ==
    IF k > Len(atoms) THEN P
    ELSE Ends(atoms, k + 1, path, Quantified(atoms[k], path, P))

\* re.test(path): some match starting anywhere in path
Test(re, path) == Ends(re, 1, path, 1..(Len(path) + 1)) # {}

---------------------------------------------------------------------------
(* function FileGlob( glob ): the glob pattern converted to a regex *)

StarStarSlash == <<"(", "[", "^", "/", "]", "*", "/", ")", "*">>   \* '([^/]*/)*'
Star == <<"[", "^", "/", "]", "*">>                                \* '[^/]*'
Question == <<"[", "^", "/", "]">>                                 \* '[^/]'
Dot == <<"\\", ".">>                                               \* '\\.'

\* the for loop over glob[i], from index i (1-based) with the pattern so far
RECURSIVE Convert(_, _, _)
Convert(glob, i, pattern) ==
    IF i > Len(glob) THEN pattern
    ELSE LET ch == glob[i] IN
      IF ch = "*"
      THEN IF At(glob, i + 1) = "*" /\ At(glob, i + 2) = "/"
           THEN Convert(glob, i + 3, pattern \o StarStarSlash)
           ELSE Convert(glob, i + 1, pattern \o Star)
      ELSE IF ch = "?" THEN Convert(glob, i + 1, pattern \o Question)
      ELSE IF ch = "." THEN Convert(glob, i + 1, pattern \o Dot)
      ELSE Convert(glob, i + 1, pattern \o <<ch>>)

\* The pattern string handed to new RegExp.  The loop runs while
\* i < glob.length: for a value that is no string, glob.length is undefined
\* and the loop body never runs.
Pattern(glob) ==
    <<"^">> \o (IF Kind(glob) = "string" THEN Convert(Chars(glob), 1, <<>>) ELSE <<>>)
            \o <<"$">>

\* new FileGlob( glob ): the matcher object, or the SyntaxError of new RegExp
FileGlob(glob) ==
    LET re == RegExp(Pattern(glob)) IN
    IF ParseOk(re) THEN <<"FileGlob", ParseAtoms(re)>> ELSE Thrown

---------------------------------------------------------------------------
(* The set classes *)

\* new FileGlobSet( globs ): globs.map( glob => new FileGlob( glob ) )
FileGlobSet(globs) ==
    LET fglobs == [i \in 1..Len(globs) |-> FileGlob(globs[i])] IN
    IF \E i \in 1..Len(globs) : IsThrown(fglobs[i]) THEN Thrown
    ELSE <<"FileGlobSet", fglobs>>

\* new Compliment( includes, excludes )
Compliment(includes, excludes) == <<"Compliment", includes, excludes>>

\* new Union( sets )
Union(sets) == <<"Union", sets>>

\* the fields the constructors close over
Regex(x) == x[2]
Fglobs(x) == x[2]
Includes(x) == x[2]
Excludes(x) == x[3]
Sets(x) == x[2]

\* The prototype chain: FileGlobSet.prototype = EmptySet,
\* Compliment.prototype = EmptySet, Union.prototype = new Set(), and a
\* FileGlob keeps the default prototype.
Prototype(k) ==
    CASE k = "FileGlobSet" -> "Set"
      [] k = "Compliment" -> "Set"
      [] k = "Union" -> "Set"
      [] k = "Set" -> "Set.prototype"
      [] k = "FileGlob" -> "FileGlob.prototype"
      [] OTHER -> "Object.prototype"

RECURSIVE InChain(_, _)
InChain(k, target) ==
    IF k = "Object.prototype" THEN FALSE
    ELSE Prototype(k) = target \/ InChain(Prototype(k), target)

\* isaSet looking at the object's own prototype only
isaSetOwnPrototype(x) == Prototype(Kind(x)) = "Set.prototype"

\* x instanceof Set
isaSet(x) == InChain(Kind(x), "Set.prototype")

\* x.matches( path ), by the variant of x
RECURSIVE matches(_, _)
matches(x, path) ==
    CASE Kind(x) = "Set" -> FALSE
      [] Kind(x) = "FileGlob" -> Test(Regex(x), path)
      [] Kind(x) = "FileGlobSet" ->
           \E i \in 1..Len(Fglobs(x)) : matches(Fglobs(x)[i], path)
      [] Kind(x) = "Compliment" ->
           matches(Includes(x), path) /\ ~matches(Excludes(x), path)
      [] Kind(x) = "Union" ->
           \E i \in 1..Len(Sets(x)) : matches(Sets(x)[i], path)

\* filter with the inherited Set.prototype.filter handing the list back
filterKeepsAll(x, list) ==
    LET keep(path) == matches(x, path) IN
    IF Kind(x) = "Set" THEN list ELSE SelectSeq(list, keep)

\* x.filter( list ), by the variant of x
filter(x, list) ==
    LET keep(path) == matches(x, path) IN
    IF Kind(x) = "Set" THEN <<>> ELSE SelectSeq(list, keep)

---------------------------------------------------------------------------
(* The factories *)

make(glob) == FileGlob(glob)

makeSet(globs) ==
    IF Kind(globs) = "undefined" THEN EmptySet
    ELSE IF isaSet(globs) THEN globs
    ELSE IF Kind(globs) # "array" THEN FileGlobSet(<<globs>>)
    ELSE FileGlobSet(Items(globs))

\* makeCompliment with its two arguments exchanged
makeComplimentSwapped(includes, excludes) ==
    LET i == makeSet(excludes)
        e == makeSet(includes)
    IN IF IsThrown(i) \/ IsThrown(e) THEN Thrown ELSE Compliment(i, e)

makeCompliment(includes, excludes) ==
    LET i == makeSet(includes)
        e == makeSet(excludes)
    IN IF IsThrown(i) \/ IsThrown(e) THEN Thrown ELSE Compliment(i, e)

makeUnion(arguments) ==
    LET sets == [i \in 1..Len(arguments) |-> makeSet(arguments[i])] IN
    IF \E i \in 1..Len(arguments) : IsThrown(sets[i]) THEN Thrown
    ELSE Union(sets)

---------------------------------------------------------------------------
(* The caller: factory calls, each of which may be handed the object built *)
(* before, then one method call on the object built last.  The objects are *)
(* immutable, so a method call changes nothing a later factory call reads. *)

StrArr(l) == Arr([i \in 1..Len(l) |-> Str(l[i])])

\* absent, a glob string or a list of glob strings
Raw == {Undefined} \cup {Str(g) : g \in SetGlobs} \cup {StrArr(l) : l \in SetLists}

HasMethods(x) == Kind(x) \in {"Set", "FileGlob", "FileGlobSet", "Compliment", "Union"}

\* what a factory can be handed: a raw input, or the object built before
Inputs == Raw \cup (IF HasMethods(cur) THEN {cur} ELSE {})

ArgLists == UNION {[1..n -> Inputs] : n \in 0..MaxArgs}

PathLists == UNION {[1..n -> SetPaths] : n \in 0..MaxFilterLen}

Max(S) == IF S = {} THEN 0 ELSE CHOOSE m \in S : \A n \in S : n <= m

\* the nesting of Compliment and Union objects
RECURSIVE Depth(_)
Depth(x) ==
    CASE Kind(x) = "Compliment" -> 1 + Max({Depth(Includes(x)), Depth(Excludes(x))})
      [] Kind(x) = "Union" -> 1 + Max({Depth(Sets(x)[i]) : i \in 1..Len(Sets(x))})
      [] OTHER -> 0

\* a method's outcome: its kind, the boolean of matches, the list of filter
NoResult == <<"none", FALSE, <<>>>>
Bool(b) == <<"boolean", b, <<>>>>
List(l) == <<"list", FALSE, l>>
Raised == <<"thrown", FALSE, <<>>>>

Fn(c) == c[1]
Args(c) == c[2]

Init ==
    /\ cur = Undefined
    /\ call = <<"none", <<>>>>
    /\ op = "none"
    /\ arg = <<>>
    /\ ret = NoResult

\* a factory call is made before the method call on its result: with
\* op = "none", arg and ret still hold their initial values
Make(glob) ==
    /\ op = "none"
    /\ cur' = make(Str(glob))
    /\ call' = <<"make", <<Str(glob)>>>>
    /\ UNCHANGED <<op, arg, ret>>

MakeSet(globs) ==
    /\ op = "none"
    /\ cur' = makeSet(globs)
    /\ call' = <<"makeSet", <<globs>>>>
    /\ UNCHANGED <<op, arg, ret>>

MakeCompliment(includes, excludes) ==
    /\ op = "none"
    /\ cur' = makeCompliment(includes, excludes)
    /\ Depth(cur') <= MaxDepth
    /\ call' = <<"makeCompliment", <<includes, excludes>>>>
    /\ UNCHANGED <<op, arg, ret>>

MakeUnion(arguments) ==
    /\ op = "none"
    /\ cur' = makeUnion(arguments)
    /\ Depth(cur') <= MaxDepth
    /\ call' = <<"makeUnion", arguments>>
    /\ UNCHANGED <<op, arg, ret>>

\* factory(...).matches( path ): an exception of the factory is the
\* outcome of the whole expression
Matches(path) ==
    /\ op = "none"
    /\ HasMethods(cur) \/ IsThrown(cur)
    /\ op' = "matches"
    /\ arg' = <<path>>
    /\ ret' = IF IsThrown(cur) THEN Raised ELSE Bool(matches(cur, path))
    /\ UNCHANGED <<cur, call>>

\* factory(...).filter( list )
Filter(list) ==
    /\ op = "none"
    /\ HasMethods(cur) \/ IsThrown(cur)
    /\ op' = "filter"
    /\ arg' = list
    /\ ret' = IF IsThrown(cur) THEN Raised ELSE List(filter(cur, list))
    /\ UNCHANGED <<cur, call>>

(* The set algebra, over a few globs *)
Next ==
    \/ \E glob \in SetGlobs : Make(glob)
    \/ \E globs \in Inputs : MakeSet(globs)
    \/ \E includes \in Inputs, excludes \in Inputs : MakeCompliment(includes, excludes)
    \/ \E arguments \in ArgLists : MakeUnion(arguments)
    \/ \E path \in SetPaths : Matches(path)
    \/ \E list \in PathLists : Filter(list)

Spec == Init /\ [][Next]_vars

(* The pattern compiler, over every glob and path up to a length *)
NextGlob ==
    \/ \E glob \in Globs : Make(glob)
    \/ \E path \in Paths : Matches(path)

SpecGlob == Init /\ [][NextGlob]_vars

---------------------------------------------------------------------------
(* The claims *)

Glob == Chars(Args(call)[1])
Path == arg[1]

IsLiteral(s) == \A i \in 1..Len(s) : s[i] \notin {"*", "?", "."}

Before(s, k) == SubSeq(s, 1, k - 1)
After(s, k) == SubSeq(s, k + 1, Len(s))

\* p = a \o s \o b for some s
Middle(p, a, b) == SubSeq(p, Len(a) + 1, Len(p) - Len(b))
Around(p, a, b) ==
    /\ Len(p) >= Len(a) + Len(b)
    /\ SubSeq(p, 1, Len(a)) = a
    /\ SubSeq(p, Len(p) - Len(b) + 1, Len(p)) = b

NoSlash(s) == \A i \in 1..Len(s) : s[i] # "/"

\* zero or more segments, each a run of non-'/' characters and one '/'
Segments(s) == s = <<>> \/ s[Len(s)] = "/"

MatchTrue(x, path) == ~IsThrown(x) /\ matches(x, path)
MatchFalse(x, path) == ~IsThrown(x) /\ ~matches(x, path)

\* C1: a single '*' between literal strings a and b matches exactly the
\* paths a \o s \o b in which s contains no '/'.
C1_StarWithinSegment ==
    (Fn(call) = "make" /\ op = "matches") =>
        \A k \in 1..Len(Glob) :
            (Glob[k] = "*" /\ IsLiteral(Before(Glob, k)) /\ IsLiteral(After(Glob, k))) =>
                ((ret = Bool(TRUE)) <=>
                    (/\ Around(Path, Before(Glob, k), After(Glob, k))
                     /\ NoSlash(Middle(Path, Before(Glob, k), After(Glob, k)))))

\* C2: the token '**/' between literal strings a and b matches exactly the
\* paths a \o s \o b in which s is zero or more whole path segments.
C2_StarStarSlashSegments ==
    (Fn(call) = "make" /\ op = "matches") =>
        \A k \in 1..Len(Glob) :
            (/\ Glob[k] = "*" /\ At(Glob, k + 1) = "*" /\ At(Glob, k + 2) = "/"
             /\ IsLiteral(Before(Glob, k)) /\ IsLiteral(After(Glob, k + 2))) =>
                ((ret = Bool(TRUE)) <=>
                    (/\ Around(Path, Before(Glob, k), After(Glob, k + 2))
                     /\ Segments(Middle(Path, Before(Glob, k), After(Glob, k + 2)))))

\* C3: a glob without '*', '?' and '.' matches a path iff the path equals it.
C3_LiteralEquality ==
    (Fn(call) = "make" /\ op = "matches" /\ IsLiteral(Glob)) =>
        ((ret = Bool(TRUE)) <=> (Path = Glob))

\* C9: make(g) and makeSet(g) never raise an error, whatever the string g,
\* and the matcher they return answers matches with a boolean.
C9_CompilerTotal ==
    (Fn(call) \in {"make", "makeSet"} /\ Kind(Args(call)[1]) = "string") =>
        /\ ~IsThrown(cur)
        /\ op = "matches" => Kind(ret) = "boolean"

\* the globs of a makeSet input: a list's items, or the single string
GlobList(x) == IF Kind(x) = "array" THEN Items(x) ELSE <<x>>

\* C4: makeSet(G).matches(p) is true iff make(g).matches(p) is true for
\* some g in G, for a list G of glob strings or a single glob string.
C4_SetMatchesAnyGlob ==
    (/\ Fn(call) = "makeSet"
     /\ Kind(Args(call)[1]) \in {"array", "string"}
     /\ op = "matches") =>
        ((ret = Bool(TRUE)) <=>
            \E i \in 1..Len(GlobList(Args(call)[1])) :
                MatchTrue(make(GlobList(Args(call)[1])[i]), Path))

\* C5: makeCompliment(I, E).matches(p) is true iff makeSet(I).matches(p) is
\* true and makeSet(E).matches(p) is false.
C5_ComplimentIsDifference ==
    (Fn(call) = "makeCompliment" /\ op = "matches") =>
        ((ret = Bool(TRUE)) <=>
            (/\ MatchTrue(makeSet(Args(call)[1]), Path)
             /\ MatchFalse(makeSet(Args(call)[2]), Path)))

\* a path the includes match and the excludes take away
C5_Witness ==
    /\ Fn(call) = "makeCompliment"
    /\ op = "matches"
    /\ ret = Bool(FALSE)
    /\ MatchTrue(makeSet(Args(call)[1]), Path)
    /\ MatchTrue(makeSet(Args(call)[2]), Path)

\* C6: makeUnion(x1, ..., xn).matches(p) is true iff makeSet(xi).matches(p)
\* is true for at least one i.
C6_UnionMatchesAnyArgument ==
    (Fn(call) = "makeUnion" /\ op = "matches") =>
        ((ret = Bool(TRUE)) <=>
            \E i \in 1..Len(Args(call)) : MatchTrue(makeSet(Args(call)[i]), Path))

\* the elements of list that x matches, in order, duplicates kept
RECURSIVE Matching(_, _)
Matching(x, list) ==
    IF list = <<>> THEN <<>>
    ELSE (IF matches(x, Head(list)) THEN <<Head(list)>> ELSE <<>>)
             \o Matching(x, Tail(list))

\* C7: for every object S the factories return, S.filter(L) is the
\* sub-sequence of L of exactly the elements S.matches accepts.
C7_FilterAgreesWithMatches ==
    (op = "filter" /\ HasMethods(cur)) => ret = List(Matching(cur, arg))

\* a filter call that kept one element and dropped another
C7_Witness ==
    /\ op = "filter"
    /\ Kind(cur) = "Compliment"
    /\ Len(arg) = 2
    /\ Kind(ret) = "list"
    /\ ret[3] = <<arg[2]>>

\* the objects makeSet, makeCompliment and makeUnion return
BuiltSet(x) == Kind(x) \in {"Set", "FileGlobSet", "Compliment", "Union"}

\* C8: makeSet(S) returns S itself for every S that makeSet, makeCompliment
\* or makeUnion returned, so it matches and filters as S does.
C8_MakeSetIdempotent ==
    (Fn(call) = "makeSet" /\ BuiltSet(Args(call)[1])) =>
        /\ cur = Args(call)[1]
        /\ op = "matches" => ret = Bool(matches(Args(call)[1], Path))
        /\ op = "filter" => ret = List(filter(Args(call)[1], arg))

\* makeSet handed a union that matches the path
C8_Witness ==
    /\ Fn(call) = "makeSet"
    /\ Kind(Args(call)[1]) = "Union"
    /\ cur = Args(call)[1]
    /\ op = "matches"
    /\ ret = Bool(TRUE)

\* C10: makeSet(make(g)).matches(p) equals make(g).matches(p): a Pattern
\* Matcher handed to makeSet is returned unchanged.
C10_MatcherThroughMakeSet ==
    (Fn(call) = "makeSet" /\ Kind(Args(call)[1]) = "FileGlob") =>
        /\ cur = Args(call)[1]
        /\ op = "matches" => ret = Bool(matches(Args(call)[1], Path))

=============================================================================
